---- MODULE Spec2Model ----
(***************************************************************************)
(* Model of MRTD.py: decoding and encoding of ICAO 9303 TD3 machine        *)
(* readable zone lines, and the check digit computation.                   *)
(*                                                                         *)
(* A Python str is a sequence of one-character strings.  Python's None is  *)
(* the value None below, which is no string of the model (its only element *)
(* is not a character).                                                    *)
(***************************************************************************)
EXTENDS Integers, Sequences, FiniteSets, TLC

VARIABLES
    pc,                 \* "start", or the name of the call that has returned
    data,               \* encode_mrz_strings: the argument dictionary
    encoded,            \* encode_mrz_strings: what the call produced
    roundtrip,          \* decode_mrz_strings applied to the encoded lines
    string1,            \* decode_mrz_line1 / decode_mrz_strings: argument
    string2,            \* decode_mrz_line2 / decode_mrz_strings: argument
    decoded,            \* what the decode call produced
    field,              \* calculate_check_digit / report_digit_mismatch: argument
    expected_checksum,  \* report_digit_mismatch: argument
    check_result        \* what the check digit call produced

vars == <<pc, data, encoded, roundtrip, string1, string2, decoded,
          field, expected_checksum, check_result>>

(***************************************************************************)
(* Characters and Python's str operations                                  *)
(***************************************************************************)
None == <<"None">>
Idle == <<"idle">>

Digits == <<"0", "1", "2", "3", "4", "5", "6", "7", "8", "9">>
Letters == <<"A", "B", "C", "D", "E", "F", "G", "H", "I", "J", "K", "L", "M",
             "N", "O", "P", "Q", "R", "S", "T", "U", "V", "W", "X", "Y", "Z">>

Range(s) == {s[i] : i \in 1..Len(s)}
DigitChars == Range(Digits)
LetterChars == Range(Letters)
MrzChars == DigitChars \cup LetterChars \cup {"<"}

IndexOf(s, x) == CHOOSE i \in 1..Len(s) : s[i] = x

isdigit(ch) == ch \in DigitChars
isalpha(ch) == ch \in LetterChars
isspace(ch) == ch = " "

Min(a, b) == IF a < b THEN a ELSE b
Max(a, b) == IF a > b THEN a ELSE b

\* s[a:b] for 0 <= a, 0 <= b
Slice(s, a, b) == SubSeq(s, a + 1, Min(b, Len(s)))

\* s[a:]
SliceFrom(s, a) == SubSeq(s, a + 1, Len(s))

\* c * n
Repeat(c, n) == [i \in 1..n |-> c]

\* a plausible slip: only the first occurrence replaced (replace(old, new, 1))
RECURSIVE ReplaceFirst(_, _, _)
ReplaceFirst(s, old, new) ==
    IF s = <<>> THEN <<>>
    ELSE IF Head(s) = old THEN new \o Tail(s)
    ELSE <<Head(s)>> \o ReplaceFirst(Tail(s), old, new)

\* s.replace(old, new) for a one-character old and a string new
RECURSIVE Replace(_, _, _)
Replace(s, old, new) ==
    IF s = <<>> THEN <<>>
    ELSE (IF Head(s) = old THEN new ELSE <<Head(s)>>) \o Replace(Tail(s), old, new)

RECURSIVE LStrip(_)
LStrip(s) == IF s # <<>> /\ isspace(Head(s)) THEN LStrip(Tail(s)) ELSE s

RECURSIVE RStrip(_)
RStrip(s) ==
    IF s # <<>> /\ isspace(s[Len(s)]) THEN RStrip(SubSeq(s, 1, Len(s) - 1)) ELSE s

\* s.strip()
Strip(s) == RStrip(LStrip(s))

\* s.ljust(width, fill)
LJust(s, width, fill) ==
    IF Len(s) >= width THEN s ELSE s \o Repeat(fill, width - Len(s))

\* s.find("<<"): the 0-based index of the first occurrence, -1 when there is none
FindSep(s) ==
    LET hits == {i \in 1..(Len(s) - 1) : s[i] = "<" /\ s[i + 1] = "<"}
    IN  IF hits = {} THEN -1
        ELSE (CHOOSE i \in hits : \A j \in hits : i <= j) - 1

\* a plausible slip: split at the last "<<" (rsplit)
SplitSepLast(s) ==
    LET hits == {i \in 1..(Len(s) - 1) : s[i] = "<" /\ s[i + 1] = "<"}
        k == CHOOSE i \in hits : \A j \in hits : i >= j
    IN  IF hits = {} THEN <<s>>
        ELSE <<SubSeq(s, 1, k - 1), SubSeq(s, k + 2, Len(s))>>

\* s.split("<<", 1)
SplitSep1(s) ==
    LET k == FindSep(s)
    IN  IF k < 0 THEN <<s>>
        ELSE <<Slice(s, 0, k), SliceFrom(s, k + 2)>>

\* s.split("<"): always at least one (possibly empty) word
RECURSIVE SplitOn(_, _, _)
SplitOn(s, sep, cur) ==
    IF s = <<>> THEN <<cur>>
    ELSE IF Head(s) = sep THEN <<cur>> \o SplitOn(Tail(s), sep, <<>>)
    ELSE SplitOn(Tail(s), sep, Append(cur, Head(s)))

Split(s, sep) == SplitOn(s, sep, <<>>)

\* [word for word in words if word]
RECURSIVE NonEmpty(_)
NonEmpty(words) ==
    IF words = <<>> THEN <<>>
    ELSE (IF Head(words) # <<>> THEN <<Head(words)>> ELSE <<>>) \o NonEmpty(Tail(words))

\* " ".join(words)
RECURSIVE Join(_)
Join(words) ==
    IF words = <<>> THEN <<>>
    ELSE IF Len(words) = 1 THEN Head(words)
    ELSE Head(words) \o <<" ">> \o Join(Tail(words))

\* x or ""
OrEmpty(x) == IF x = None \/ x = <<>> THEN <<>> ELSE x

(***************************************************************************)
(* calculate_check_digit, report_digit_mismatch                            *)
(***************************************************************************)
int(ch) == IndexOf(Digits, ch) - 1

\* str(n) for 0 <= n <= 99
str(n) == IF n < 10 THEN <<Digits[n + 1]>>
          ELSE <<Digits[(n \div 10) + 1], Digits[(n % 10) + 1]>>

\* a plausible slip: the letters numbered from 11 (chr(i + 86))
alphabet_dict_from_11(ch) == IndexOf(Letters, ch) + 10

\* alphabet_dict[ch.lower()]: 'a' is chr(10 + 87)
alphabet_dict(ch) == IndexOf(Letters, ch) + 9

\* checksum() of the luhn package: digits[-1::-2] summed as they are,
\* digits[-2::-2] doubled and their decimal digits summed
RECURSIVE luhn_sums(_, _)
luhn_sums(digits, n) ==
    IF n = 0 THEN 0
    ELSE LET d == int(digits[n])
             fromEnd == Len(digits) - n
         IN  (IF fromEnd % 2 = 0 THEN d
              ELSE ((2 * d) \div 10) + ((2 * d) % 10))
             + luhn_sums(digits, n - 1)

luhn_checksum(string) == luhn_sums(string, Len(string)) % 10

\* luhn.generate(string)
luhn_generate(string) == (10 - luhn_checksum(string \o <<"0">>)) % 10

mapped_char(ch) ==
    IF isdigit(ch) THEN <<ch>>
    ELSE IF isalpha(ch) THEN str(alphabet_dict(ch))
    ELSE IF ch = "<" THEN <<"0">>
    ELSE <<>>

RECURSIVE numeric_str(_)
numeric_str(f) ==
    IF f = <<>> THEN <<>> ELSE mapped_char(Head(f)) \o numeric_str(Tail(f))

calculate_check_digit(f) == luhn_generate(numeric_str(f))

report_digit_mismatch(field_input, expected) ==
    calculate_check_digit(field_input) # int(expected)

(***************************************************************************)
(* The reference computations of MTTDtest.py                               *)
(***************************************************************************)
icao_val(c) ==
    IF isdigit(c) THEN int(c)
    ELSE IF c = "<" THEN 0
    ELSE IF isalpha(c) THEN IndexOf(Letters, c) - 1 + 10
    ELSE 0

icao_weights == <<7, 3, 1>>

RECURSIVE icao_total(_, _)
icao_total(f, n) ==
    IF n = 0 THEN 0
    ELSE icao_val(f[n]) * icao_weights[((n - 1) % 3) + 1] + icao_total(f, n - 1)

icao_check_digit(f) == icao_total(f, Len(f)) % 10

Reverse(s) == [i \in 1..Len(s) |-> s[Len(s) + 1 - i]]

RECURSIVE luhn_total(_, _)
luhn_total(rev, i) ==
    IF i > Len(rev) THEN 0
    ELSE LET d == int(rev[i])
             dd == IF (i - 1) % 2 = 0
                   THEN (IF 2 * d > 9 THEN 2 * d - 9 ELSE 2 * d)
                   ELSE d
         IN  dd + luhn_total(rev, i + 1)

luhn_check_digit(numeric) ==
    (10 - (luhn_total(Reverse(numeric), 1) % 10)) % 10

map_icao_char(ch) ==
    IF isdigit(ch) THEN <<ch>>
    ELSE IF ch = "<" THEN <<"0">>
    ELSE IF isalpha(ch) THEN str(IndexOf(Letters, ch) - 1 + 10)
    ELSE <<"0">>

RECURSIVE map_icao_chars_to_digits(_)
map_icao_chars_to_digits(s) ==
    IF s = <<>> THEN <<>>
    ELSE map_icao_char(Head(s)) \o map_icao_chars_to_digits(Tail(s))

(***************************************************************************)
(* decode_mrz_line1, decode_mrz_line2, decode_mrz_strings                  *)
(***************************************************************************)
TD3_WIDTH == 44
NUMBER_CHECK_DIGIT_POS == 9
BIRTH_DATE_CHECK_DIGIT_POS == 19
SEX_POS == 20
EXPIRATION_DATE_CHECK_DIGIT_POS == 27
PERSONAL_NUMBER_CHECK_DIGIT_POS == 43

IndexError == [status |-> "IndexError"]
TypeError == [status |-> "TypeError"]
Ok(v) == [status |-> "ok", value |-> v]

\* s[i] raises IndexError when i is not a position of s
InRange(s, i) == i < Len(s)
At(s, i) == <<s[i + 1]>>

\* [word.strip() for word in words]
RECURSIVE StripEach(_)
StripEach(words) ==
    IF words = <<>> THEN <<>> ELSE <<Strip(Head(words))>> \o StripEach(Tail(words))

\* a plausible slip: the empty words kept (the "if word" filter forgotten)
given_words_unfiltered(raw_given_block) == Split(raw_given_block, "<")

given_words_of(raw_given_block) == NonEmpty(Split(raw_given_block, "<"))

line1_fields(s) ==
    LET name_field == SliceFrom(s, 5)
        parts == SplitSep1(name_field)
        raw_last_name == parts[1]
        raw_given_block == IF Len(parts) > 1 THEN parts[2] ELSE <<>>
        given_words == given_words_of(raw_given_block)
        middle == IF Len(given_words) > 1
                  THEN Join(StripEach(Tail(given_words)))
                  ELSE <<>>
    IN  [document_type |-> At(s, 0),
         country_code |-> Slice(s, 2, 5),
         last_name |-> Strip(Replace(raw_last_name, "<", <<" ">>)),
         first_name |-> IF given_words # <<>> THEN Strip(given_words[1]) ELSE <<>>,
         middle_names |-> IF middle # <<>> THEN middle ELSE None]

decode_mrz_line1(s) ==
    IF ~InRange(s, 0) THEN IndexError ELSE Ok(line1_fields(s))

line2_positions ==
    {NUMBER_CHECK_DIGIT_POS, BIRTH_DATE_CHECK_DIGIT_POS, SEX_POS,
     EXPIRATION_DATE_CHECK_DIGIT_POS, PERSONAL_NUMBER_CHECK_DIGIT_POS}

\* a plausible slip: the personal number read one character short
line2_fields_short_personal(s) ==
    [passport_number |-> Strip(Replace(Slice(s, 0, 9), "<", <<>>)),
     passport_number_check_digit |-> At(s, NUMBER_CHECK_DIGIT_POS),
     country_code_2 |-> Slice(s, 10, 13),
     birth_date |-> Slice(s, 13, 19),
     birth_date_check_digit |-> At(s, BIRTH_DATE_CHECK_DIGIT_POS),
     sex |-> At(s, SEX_POS),
     expiration_date |-> Slice(s, 21, 27),
     expiration_date_check_digit |-> At(s, EXPIRATION_DATE_CHECK_DIGIT_POS),
     personal_number |-> Strip(Replace(Slice(s, 28, 41), "<", <<>>)),
     personal_number_check_digit |-> At(s, PERSONAL_NUMBER_CHECK_DIGIT_POS)]

line2_fields(s) ==
    [passport_number |-> Strip(Replace(Slice(s, 0, 9), "<", <<>>)),
     passport_number_check_digit |-> At(s, NUMBER_CHECK_DIGIT_POS),
     country_code_2 |-> Slice(s, 10, 13),
     birth_date |-> Slice(s, 13, 19),
     birth_date_check_digit |-> At(s, BIRTH_DATE_CHECK_DIGIT_POS),
     sex |-> At(s, SEX_POS),
     expiration_date |-> Slice(s, 21, 27),
     expiration_date_check_digit |-> At(s, EXPIRATION_DATE_CHECK_DIGIT_POS),
     personal_number |-> Strip(Replace(Slice(s, 28, 42), "<", <<>>)),
     personal_number_check_digit |-> At(s, PERSONAL_NUMBER_CHECK_DIGIT_POS)]

decode_mrz_line2(s) ==
    IF \E p \in line2_positions : ~InRange(s, p) THEN IndexError
    ELSE Ok(line2_fields(s))

\* {**line1, **line2}
Merge(d1, d2) ==
    [k \in DOMAIN d1 \cup DOMAIN d2 |-> IF k \in DOMAIN d2 THEN d2[k] ELSE d1[k]]

decode_mrz_strings(s1, s2) ==
    LET line1 == decode_mrz_line1(s1)
        line2 == decode_mrz_line2(s2)
    IN  IF line1.status # "ok" THEN line1
        ELSE IF line2.status # "ok" THEN line2
        ELSE Ok(Merge(line1.value, line2.value))

(***************************************************************************)
(* encode_mrz_strings                                                      *)
(***************************************************************************)
InputKeys ==
    {"document_type", "country_code", "country_code_2", "last_name", "first_name",
     "middle_names", "passport_number", "personal_number", "birth_date",
     "expiration_date", "sex"}

\* data.get(key): None for an absent key
Get(d, key) == d[key]

\* a plausible slip: line 1 padded but never truncated
encode_line1_untruncated(d) ==
    LET doc_type == OrEmpty(Get(d, "document_type"))
        issuing_state == OrEmpty(Get(d, "country_code"))
        last_name == Replace(OrEmpty(Get(d, "last_name")), " ", <<"<">>)
        first_name == Replace(OrEmpty(Get(d, "first_name")), " ", <<"<">>)
        middle_names == OrEmpty(Get(d, "middle_names"))
        middle_block == IF middle_names # <<>>
                        THEN <<"<">> \o Replace(middle_names, " ", <<"<">>)
                        ELSE <<>>
        line1_core == doc_type \o <<"<">> \o issuing_state \o last_name
                      \o <<"<", "<">> \o first_name \o middle_block
    IN  line1_core \o Repeat("<", Max(0, TD3_WIDTH - Len(line1_core)))

encode_line1(d) ==
    LET doc_type == OrEmpty(Get(d, "document_type"))
        issuing_state == OrEmpty(Get(d, "country_code"))
        last_name == Replace(OrEmpty(Get(d, "last_name")), " ", <<"<">>)
        first_name == Replace(OrEmpty(Get(d, "first_name")), " ", <<"<">>)
        middle_names == OrEmpty(Get(d, "middle_names"))
        middle_block == IF middle_names # <<>>
                        THEN <<"<">> \o Replace(middle_names, " ", <<"<">>)
                        ELSE <<>>
        line1_core == doc_type \o <<"<">> \o issuing_state \o last_name
                      \o <<"<", "<">> \o first_name \o middle_block
    IN  IF Len(line1_core) < TD3_WIDTH
        THEN line1_core \o Repeat("<", TD3_WIDTH - Len(line1_core))
        ELSE Slice(line1_core, 0, TD3_WIDTH)

\* (value or "").ljust(width, "<")[:width]
padded(value, width) == Slice(LJust(OrEmpty(value), width, "<"), 0, width)

\* a plausible slip: the check digits computed over the values before padding
encode_line2_unpadded_digits(d) ==
    LET passport_number == padded(Get(d, "passport_number"), 9)
        passport_number_check_digit ==
            calculate_check_digit(OrEmpty(Get(d, "passport_number")))
        country_code_2 == padded(Get(d, "country_code"), 3)
        birth_date == padded(Get(d, "birth_date"), 6)
        birth_date_check_digit == calculate_check_digit(OrEmpty(Get(d, "birth_date")))
        sex == Slice(Get(d, "sex"), 0, 1)
        expiration_date == padded(Get(d, "expiration_date"), 6)
        expiration_date_check_digit ==
            calculate_check_digit(OrEmpty(Get(d, "expiration_date")))
        personal_number == padded(Get(d, "personal_number"), 14)
        personal_number_check_digit ==
            calculate_check_digit(OrEmpty(Get(d, "personal_number")))
        prefix_len == Len(passport_number) + 1 + Len(country_code_2)
                      + Len(birth_date) + 1 + Len(sex)
                      + Len(expiration_date) + 1 + Len(personal_number)
        filler_count == Max(0, TD3_WIDTH - (prefix_len + 1))
        fillers == Repeat("<", filler_count)
    IN  passport_number \o str(passport_number_check_digit)
        \o country_code_2
        \o birth_date \o str(birth_date_check_digit)
        \o sex
        \o expiration_date \o str(expiration_date_check_digit)
        \o personal_number \o fillers \o str(personal_number_check_digit)

encode_line2(d) ==
    LET passport_number == padded(Get(d, "passport_number"), 9)
        passport_number_check_digit == calculate_check_digit(passport_number)
        country_code_2 == padded(Get(d, "country_code"), 3)
        birth_date == padded(Get(d, "birth_date"), 6)
        birth_date_check_digit == calculate_check_digit(birth_date)
        sex == Slice(Get(d, "sex"), 0, 1)
        expiration_date == padded(Get(d, "expiration_date"), 6)
        expiration_date_check_digit == calculate_check_digit(expiration_date)
        personal_number == padded(Get(d, "personal_number"), 14)
        personal_number_check_digit == calculate_check_digit(personal_number)
        prefix_len == Len(passport_number) + 1 + Len(country_code_2)
                      + Len(birth_date) + 1 + Len(sex)
                      + Len(expiration_date) + 1 + Len(personal_number)
        filler_count == Max(0, TD3_WIDTH - (prefix_len + 1))
        fillers == Repeat("<", filler_count)
    IN  passport_number \o str(passport_number_check_digit)
        \o country_code_2
        \o birth_date \o str(birth_date_check_digit)
        \o sex
        \o expiration_date \o str(expiration_date_check_digit)
        \o personal_number \o fillers \o str(personal_number_check_digit)

\* a plausible slip: every field required (data[key] in place of data.get(key))
encode_mrz_strings_all_required(d) ==
    IF \E k \in DOMAIN d \ {"country_code_2"} : d[k] = None THEN TypeError
    ELSE [status |-> "ok", line1 |-> encode_line1(d), line2 |-> encode_line2(d)]

encode_mrz_strings(d) ==
    IF Get(d, "sex") = None THEN TypeError
    ELSE [status |-> "ok", line1 |-> encode_line1(d), line2 |-> encode_line2(d)]

(***************************************************************************)
(* Inputs                                                                  *)
(***************************************************************************)
\* check digit fields: every string up to this length
MaxFieldLen == 2
\* line 1: every name-field body up to this length
MaxBody == 5
\* line 2: every edit of a sample line at up to this many places
MaxEdits == 2
\* encoder: field values up to this much longer than their width
MaxOver == 1

\* every string over alphabet of length lo..hi
StringsOver(alphabet, lo, hi) ==
    UNION {{<<>> \o f : f \in [1..n -> alphabet]} : n \in lo..hi}

\* the first n characters of src repeated
Cycle(src, n) == [i \in 1..n |-> src[((i - 1) % Len(src)) + 1]]

\* the sample lines and records of MRTD.py and MTTDtest.py
SampleLine1 ==
    <<"P", "<", "U", "T", "O", "E", "R", "I", "K", "S", "S", "O", "N", "<", "<",
      "A", "N", "N", "A", "<", "M", "A", "R", "I", "A">> \o Repeat("<", 19)
SampleLine2 ==
    <<"L", "8", "9", "8", "9", "0", "2", "C", "3", "6", "U", "T", "O",
      "7", "4", "0", "8", "1", "2", "2", "F", "1", "2", "0", "4", "1", "5", "9",
      "Z", "E", "1", "8", "4", "2", "2", "6", "B", "<", "<", "<", "<", "<", "<", "1">>
SampleDate == <<"5", "2", "0", "7", "2", "7">>
SampleDocNum == <<"A", "B", "2", "1", "3", "4", "<", "<", "<">>

(***************************************************************************)
(* calculate_check_digit and report_digit_mismatch, called on a field      *)
(***************************************************************************)
\* every field up to maxlen characters, and the two ICAO sample fields
CheckFields(maxlen) ==
    StringsOver(MrzChars, 0, maxlen) \cup {SampleDate, SampleDocNum}

InitCheck ==
    /\ pc = "start"
    /\ field \in CheckFields(MaxFieldLen)
    /\ expected_checksum = Idle
    /\ check_result = Idle
    /\ data = Idle /\ encoded = Idle /\ roundtrip = Idle
    /\ string1 = Idle /\ string2 = Idle /\ decoded = Idle

CalculateCheckDigit ==
    /\ pc = "start"
    /\ check_result' = calculate_check_digit(field)
    /\ pc' = "calculate_check_digit"
    /\ UNCHANGED <<data, encoded, roundtrip, string1, string2, decoded,
                   field, expected_checksum>>

ReportDigitMismatch ==
    /\ pc = "start"
    /\ \E e \in DigitChars :
        /\ expected_checksum' = e
        /\ check_result' = report_digit_mismatch(field, e)
    /\ pc' = "report_digit_mismatch"
    /\ UNCHANGED <<data, encoded, roundtrip, string1, string2, decoded, field>>

NextCheck == CalculateCheckDigit \/ ReportDigitMismatch

SpecCheck == InitCheck /\ [][NextCheck]_vars

(***************************************************************************)
(* The decoders, called on lines                                           *)
(***************************************************************************)
NameChars == {"A", "B", "<", " "}
EditChars == {"<", " "}

SampleHead == Slice(SampleLine1, 0, 5)
SampleNames == SliceFrom(SampleLine1, 5)
Alternating == <<"A", "<", "B", "<">>

\* what follows the body in the name field: fillers, the sample names, or
\* single-filler separated letters (no "<<" at all)
Tails(n) == {Repeat("<", n), Slice(SampleNames, 0, n), Cycle(Alternating, n)}

\* lines whose name field starts with a body of up to maxbody characters, cut
\* after the body or filled to 44 characters; and every prefix of the sample line
Line1Inputs(maxbody) ==
    UNION {{SampleHead \o body \o tail : tail \in Tails(TD3_WIDTH - 5 - Len(body))} :
              body \in StringsOver(NameChars, 0, maxbody)}
    \cup {SampleHead \o body : body \in StringsOver(NameChars, 0, maxbody)}
    \cup {Slice(SampleLine1, 0, n) : n \in 0..(TD3_WIDTH + 1)}

\* the sets of at most k positions among from..to
RECURSIVE Places(_, _, _)
Places(k, from, to) ==
    IF k = 0 THEN {{}}
    ELSE {{}} \cup UNION {{{p} \cup rest : rest \in Places(k - 1, p + 1, to)} : p \in from..to}

\* base with the characters at the positions of DOMAIN edit replaced
ApplyEdits(base, edit) ==
    [i \in 1..Len(base) |-> IF i \in DOMAIN edit THEN edit[i] ELSE base[i]]

\* a line 2 with no filler, its characters all different within every field
DenseLine2 == <<>> \o Cycle(Letters \o Digits, TD3_WIDTH)

Line2Bases == {SampleLine2, DenseLine2}

\* the prefixes of the sample line, one character more, and a line of fillers
Line2Others ==
    {Slice(SampleLine2 \o <<"<">>, 0, n) : n \in 0..(TD3_WIDTH + 1)}
    \cup {Repeat("<", TD3_WIDTH) \o <<>>}

PairInputs ==
    {<<SampleLine1, SampleLine2>>, <<SampleLine1, DenseLine2>>,
     <<SampleLine1, Repeat("<", TD3_WIDTH) \o <<>>>>}
    \cup {<<Slice(SampleLine1, 0, n), Slice(SampleLine2, 0, m)>> :
             n \in {0, 10, TD3_WIDTH}, m \in {0, 10, TD3_WIDTH - 1, TD3_WIDTH}}

InitDecode ==
    /\ pc = "start"
    /\ \/ string1 \in Line1Inputs(MaxBody) /\ string2 = Idle
       \/ /\ string1 = Idle
          /\ \E base \in Line2Bases, places \in Places(MaxEdits, 1, TD3_WIDTH) :
                 \E edit \in [places -> EditChars] :
                     string2 = <<>> \o ApplyEdits(base, edit)
       \/ string1 = Idle /\ string2 \in Line2Others
       \/ \E pair \in PairInputs : string1 = pair[1] /\ string2 = pair[2]
    /\ decoded = Idle
    /\ data = Idle /\ encoded = Idle /\ roundtrip = Idle
    /\ field = Idle /\ expected_checksum = Idle /\ check_result = Idle

DecodeLine1 ==
    /\ pc = "start"
    /\ string1 # Idle
    /\ decoded' = decode_mrz_line1(string1)
    /\ pc' = "decode_mrz_line1"
    /\ UNCHANGED <<data, encoded, roundtrip, string1, string2,
                   field, expected_checksum, check_result>>

DecodeLine2 ==
    /\ pc = "start"
    /\ string2 # Idle
    /\ decoded' = decode_mrz_line2(string2)
    /\ pc' = "decode_mrz_line2"
    /\ UNCHANGED <<data, encoded, roundtrip, string1, string2,
                   field, expected_checksum, check_result>>

DecodeStrings ==
    /\ pc = "start"
    /\ string1 # Idle /\ string2 # Idle
    /\ decoded' = decode_mrz_strings(string1, string2)
    /\ pc' = "decode_mrz_strings"
    /\ UNCHANGED <<data, encoded, roundtrip, string1, string2,
                   field, expected_checksum, check_result>>

NextDecode == DecodeLine1 \/ DecodeLine2 \/ DecodeStrings

SpecDecode == InitDecode /\ [][NextDecode]_vars

(***************************************************************************)
(* encode_mrz_strings, called on a record, and its lines decoded again     *)
(***************************************************************************)
\* the record of MTTDtest.py's round trip test
BaseRecord ==
    [document_type |-> <<"P">>,
     country_code |-> <<"U", "T", "O">>,
     country_code_2 |-> <<"U", "T", "O">>,
     last_name |-> <<"D", "O", "E">>,
     first_name |-> <<"J", "A", "N", "E">>,
     middle_names |-> <<"A", "L", "P", "H", "A", " ", "B", "E", "T", "A">>,
     passport_number |-> <<"A", "B", "2", "1", "3", "4">>,
     personal_number |-> <<"X", "Y", "Z", "1", "2", "3">>,
     birth_date |-> <<"5", "2", "0", "7", "2", "7">>,
     expiration_date |-> <<"3", "3", "1", "2", "3", "1">>,
     sex |-> <<"F">>]

\* None, and prefixes of src repeated, of the given lengths
Values(src, lengths) == {None} \cup {<<>> \o Cycle(src, n) : n \in lengths}

DocTypes == Values(<<"P", "X", "Y">>, 0..(1 + MaxOver))
CountryCodes == Values(<<"U", "T", "O", "X", "Y">>, 2..(3 + MaxOver))
CountryCodes2 == {None, <<"U", "T", "O">>, <<"X", "X", "X">>}
LastNames ==
    {None, <<>>, <<"D", "O", "E">>, <<"D", "E", " ", "L", "A">>,
     <<" ", "D", "O", "E">>, <<"D", " ", " ", "E">>}
    \cup Values(<<"E", "R", "I", "K", "S", "S", "O", "N">>, 32..(33 + MaxOver))
FirstNames ==
    {None, <<>>, <<"J", "A", "N", "E">>, <<"J", "A", "N", "E", " ", "A", "N", "N">>}
MiddleNames ==
    {None, <<>>, <<"A", "L", "P", "H", "A">>,
     <<"A", "L", "P", "H", "A", " ", "B", "E", "T", "A">>}
PassportNumbers ==
    {<<"A", "B", "2", "1", "3", "4">>, <<" ", "A", "B">>, <<"A", " ", "B">>}
    \cup Values(<<"L", "8", "9", "8", "9", "0", "2", "C", "3", "X", "Y">>,
                {0} \cup 8..(9 + MaxOver))
Dates(src) == Values(src, 5..(6 + MaxOver))
Sexes == Values(<<"F", "M", "X">>, 0..(1 + MaxOver))
PersonalNumbers ==
    {<<"X", "Y", "Z", "1", "2", "3">>}
    \cup Values(<<"Z", "E", "1", "8", "4", "2", "2", "6", "B", "0", "1", "2", "3",
                  "4", "5", "6">>, {0} \cup 13..(14 + MaxOver))

\* the line 1 fields vary, or the line 2 fields, or the two country codes
Records ==
    {[BaseRecord EXCEPT !.document_type = dt, !.country_code = cc, !.last_name = ln,
                        !.first_name = fn, !.middle_names = mn] :
        dt \in DocTypes, cc \in CountryCodes, ln \in LastNames,
        fn \in FirstNames, mn \in MiddleNames}
    \cup
    {[BaseRecord EXCEPT !.passport_number = pn, !.birth_date = bd, !.sex = sx,
                        !.expiration_date = ed, !.personal_number = pe] :
        pn \in PassportNumbers, bd \in Dates(BaseRecord.birth_date), sx \in Sexes,
        ed \in Dates(BaseRecord.expiration_date), pe \in PersonalNumbers}
    \cup
    {[BaseRecord EXCEPT !.country_code = cc, !.country_code_2 = c2] :
        cc \in CountryCodes, c2 \in CountryCodes2}

InitEncode ==
    /\ pc = "start"
    /\ data \in Records
    /\ encoded = Idle /\ roundtrip = Idle
    /\ string1 = Idle /\ string2 = Idle /\ decoded = Idle
    /\ field = Idle /\ expected_checksum = Idle /\ check_result = Idle

EncodeMrzStrings ==
    /\ pc = "start"
    /\ encoded' = encode_mrz_strings(data)
    /\ pc' = "encode_mrz_strings"
    /\ UNCHANGED <<data, roundtrip, string1, string2, decoded,
                   field, expected_checksum, check_result>>

\* decode_mrz_strings(*encode_mrz_strings(data))
DecodeEncoded ==
    /\ pc = "encode_mrz_strings"
    /\ encoded.status = "ok"
    /\ roundtrip' = decode_mrz_strings(encoded.line1, encoded.line2)
    /\ pc' = "roundtrip"
    /\ UNCHANGED <<data, encoded, string1, string2, decoded,
                   field, expected_checksum, check_result>>

NextEncode == EncodeMrzStrings \/ DecodeEncoded

SpecEncode == InitEncode /\ [][NextEncode]_vars

(***************************************************************************)
(* Properties: the check digit                                             *)
(***************************************************************************)
\* C5: for every field over A-Z, 0-9 and '<', calculate_check_digit returns one
\* integer in 0..9, the Luhn mod-10 check digit (doubling from the rightmost
\* digit) of the field's characters mapped to digits (digit to itself, '<' to 0,
\* letter to 10..35) and concatenated.
C5_LuhnOverMappedDigits ==
    (pc = "calculate_check_digit" /\ Range(field) \subseteq MrzChars) =>
        /\ check_result \in 0..9
        /\ check_result = luhn_check_digit(map_icao_chars_to_digits(field))

C5_Witness ==
    /\ pc = "calculate_check_digit"
    /\ field = SampleDocNum
    /\ numeric_str(field) = <<"1", "0", "1", "1", "2", "1", "3", "4", "0", "0", "0">>
    /\ check_result = 0

\* C6: for every field over A-Z, 0-9 and '<' and every decimal digit that differs
\* from the field's ICAO 9303 check digit (weights 7, 3, 1, modulo 10),
\* report_digit_mismatch returns true.
C6_WrongIcaoDigitFlagged ==
    (/\ pc = "report_digit_mismatch"
     /\ Range(field) \subseteq MrzChars
     /\ int(expected_checksum) # icao_check_digit(field)) => check_result = TRUE

(***************************************************************************)
(* Properties: the decoders                                                *)
(***************************************************************************)
NotFiller(c) == c # "<"

\* s with every '<' removed
WithoutFiller(s) == SelectSeq(s, NotFiller)

\* s without its leading and trailing blanks
Trimmed(s) ==
    LET solid == {i \in 1..Len(s) : s[i] # " "}
    IN  IF solid = {} THEN <<>>
        ELSE SubSeq(s, CHOOSE i \in solid : \A j \in solid : i <= j,
                       CHOOSE i \in solid : \A j \in solid : i >= j)

\* the characters of s at the 0-based positions a..b
Chars(s, a, b) == [i \in 1..(b - a + 1) |-> s[a + i]]

\* the fixed-offset fields of a 44-character line 2; trim is applied to the two
\* numbers after their fillers are removed
Line2Layout(s, trim(_)) ==
    [passport_number |-> trim(WithoutFiller(Chars(s, 0, 8))),
     passport_number_check_digit |-> Chars(s, 9, 9),
     country_code_2 |-> Chars(s, 10, 12),
     birth_date |-> Chars(s, 13, 18),
     birth_date_check_digit |-> Chars(s, 19, 19),
     sex |-> Chars(s, 20, 20),
     expiration_date |-> Chars(s, 21, 26),
     expiration_date_check_digit |-> Chars(s, 27, 27),
     personal_number |-> trim(WithoutFiller(Chars(s, 28, 41))),
     personal_number_check_digit |-> Chars(s, 43, 43)]

Same(s) == s

SameFields(d, e) == DOMAIN d = DOMAIN e /\ \A k \in DOMAIN d : d[k] = e[k]

\* C3 as stated: for every 44-character line 2, decode_mrz_line2 succeeds and
\* returns exactly the fixed-offset fields, passport_number and personal_number
\* being their characters with every '<' removed, the check digits raw.
C3_FixedOffsetsFillersRemoved ==
    (pc = "decode_mrz_line2" /\ Len(string2) = TD3_WIDTH) =>
        /\ decoded.status = "ok"
        /\ SameFields(decoded.value, Line2Layout(string2, Same))

\* C3 as amended: the same, passport_number and personal_number being their
\* characters with every '<' removed and then leading and trailing whitespace
\* trimmed.
C3_FixedOffsetsFillersRemovedTrimmed ==
    (pc = "decode_mrz_line2" /\ Len(string2) = TD3_WIDTH) =>
        /\ decoded.status = "ok"
        /\ SameFields(decoded.value, Line2Layout(string2, Trimmed))

C3_Witness ==
    /\ pc = "decode_mrz_line2"
    /\ Len(string2) = TD3_WIDTH
    /\ string2[1] = " " /\ string2[29] = "<"
    /\ decoded.status = "ok"
    /\ decoded.value.passport_number = Chars(string2, 1, 8)
    /\ decoded.value.personal_number = Chars(string2, 29, 36)
    /\ decoded.value.personal_number_check_digit = <<"1">>

\* the name field of a line 1: position 5 to the end
NameField(s) == Chars(s, 5, Len(s) - 1)

SepAt(name, i) == i < Len(name) /\ name[i] = "<" /\ name[i + 1] = "<"
HasSep(name) == \E i \in 1..Len(name) : SepAt(name, i)
FirstSep(name) ==
    CHOOSE i \in 1..Len(name) : SepAt(name, i) /\ \A j \in 1..(i - 1) : ~SepAt(name, j)

\* the parts of the name field before and after its first "<<"
BeforeSep(name) == IF HasSep(name) THEN SubSeq(name, 1, FirstSep(name) - 1) ELSE name
AfterSep(name) ==
    IF HasSep(name) THEN SubSeq(name, FirstSep(name) + 2, Len(name)) ELSE <<>>

FillersToSpaces(s) == [i \in 1..Len(s) |-> IF s[i] = "<" THEN " " ELSE s[i]]

\* the tokens of g: its maximal runs of characters other than '<', in order
TokenStarts(g) == {i \in 1..Len(g) : g[i] # "<" /\ (i = 1 \/ g[i - 1] = "<")}
TokenEnd(g, i) ==
    CHOOSE j \in i..Len(g) :
        /\ \A m \in i..j : g[m] # "<"
        /\ j = Len(g) \/ g[j + 1] = "<"
NthStart(g, n) ==
    CHOOSE i \in TokenStarts(g) : Cardinality({j \in TokenStarts(g) : j < i}) = n - 1
Tokens(g) ==
    [n \in 1..Cardinality(TokenStarts(g)) |->
        SubSeq(g, NthStart(g, n), TokenEnd(g, NthStart(g, n)))]

\* the tokens after the first, each trimmed by trim, joined by single spaces
JoinedRest(tokens, trim(_)) ==
    Join(<<>> \o [n \in 1..(Len(tokens) - 1) |-> trim(tokens[n + 1])])

\* C4 as stated: for every 44-character line 1 the name field is split at the
\* first "<<"; last_name is the part before it with '<' replaced by spaces and
\* trimmed; of the tokens of the part after it, first_name is the first (empty if
\* none) and middle_names the rest joined by single spaces, None when there is no
\* second token.
C4_NameSplitRawTokens ==
    (pc = "decode_mrz_line1" /\ Len(string1) = TD3_WIDTH) =>
        LET name == NameField(string1)
            tokens == Tokens(AfterSep(name))
        IN  /\ decoded.status = "ok"
            /\ decoded.value.last_name = Trimmed(FillersToSpaces(BeforeSep(name)))
            /\ decoded.value.first_name = IF Len(tokens) >= 1 THEN tokens[1] ELSE <<>>
            /\ decoded.value.middle_names # <<>>
            /\ decoded.value.middle_names =
                   IF Len(tokens) >= 2 THEN JoinedRest(tokens, Same) ELSE None

\* C4 as amended: the same, with every token trimmed of leading and trailing
\* whitespace, and middle_names None whenever the joined remaining tokens are the
\* empty string (in particular when there is no second token).
C4_NameSplitTrimmedTokens ==
    (pc = "decode_mrz_line1" /\ Len(string1) = TD3_WIDTH) =>
        LET name == NameField(string1)
            tokens == Tokens(AfterSep(name))
            rest == JoinedRest(tokens, Trimmed)
        IN  /\ decoded.status = "ok"
            /\ decoded.value.last_name = Trimmed(FillersToSpaces(BeforeSep(name)))
            /\ decoded.value.first_name =
                   IF Len(tokens) >= 1 THEN Trimmed(tokens[1]) ELSE <<>>
            /\ decoded.value.middle_names # <<>>
            /\ decoded.value.middle_names =
                   IF Len(tokens) >= 2 /\ rest # <<>> THEN rest ELSE None

\* a second "<<" later in the name field, and a token with a blank to trim
C4_Witness ==
    /\ pc = "decode_mrz_line1"
    /\ Len(string1) = TD3_WIDTH
    /\ SubSeq(string1, 6, 10) = <<"A", "<", "<", " ", "B">>
    /\ SepAt(NameField(string1), 14)
    /\ decoded.status = "ok"
    /\ decoded.value.last_name = <<"A">>
    /\ decoded.value.first_name = <<"B", "E", "R", "I", "K", "S", "S", "O", "N">>
    /\ decoded.value.middle_names = <<"A", "N", "N", "A", " ", "M", "A", "R", "I", "A">>

\* C8: for every input shorter than 44 characters decode_mrz_line1,
\* decode_mrz_line2 and decode_mrz_strings fail with an index error; no record is
\* returned for a too-short line.
C8_ShortLineFails ==
    /\ (pc = "decode_mrz_line1" /\ Len(string1) < TD3_WIDTH) => decoded = IndexError
    /\ (pc = "decode_mrz_line2" /\ Len(string2) < TD3_WIDTH) => decoded = IndexError
    /\ (pc = "decode_mrz_strings"
        /\ (Len(string1) < TD3_WIDTH \/ Len(string2) < TD3_WIDTH)) => decoded = IndexError

WellFormedLine(s) == Len(s) = TD3_WIDTH /\ Range(s) \subseteq MrzChars
AllFillers(s) == \A i \in 1..Len(s) : s[i] = "<"
NoFiller(v) == v = None \/ "<" \notin Range(v)

Line1Clean(s, v) ==
    /\ NoFiller(v.last_name) /\ NoFiller(v.first_name) /\ NoFiller(v.middle_names)
    /\ AllFillers(NameField(s)) =>
           v.last_name = <<>> /\ v.first_name = <<>> /\ v.middle_names = None

Line2Clean(s, v) ==
    /\ NoFiller(v.passport_number) /\ NoFiller(v.personal_number)
    /\ AllFillers(Chars(s, 0, 8)) => v.passport_number = <<>>
    /\ AllFillers(Chars(s, 28, 41)) => v.personal_number = <<>>

\* C9: for 44-character lines over A-Z, 0-9 and '<', the decoded last_name,
\* first_name, middle_names, passport_number and personal_number contain no '<',
\* and a name, passport number or personal number field made of '<' only decodes
\* to the empty string (None for middle_names).
C9_NoFillerInDecodedValues ==
    /\ (pc = "decode_mrz_line1" /\ WellFormedLine(string1)) =>
           decoded.status = "ok" /\ Line1Clean(string1, decoded.value)
    /\ (pc = "decode_mrz_line2" /\ WellFormedLine(string2)) =>
           decoded.status = "ok" /\ Line2Clean(string2, decoded.value)
    /\ (pc = "decode_mrz_strings" /\ WellFormedLine(string1) /\ WellFormedLine(string2)) =>
           /\ decoded.status = "ok"
           /\ Line1Clean(string1, decoded.value)
           /\ Line2Clean(string2, decoded.value)

\* both lines well formed, fillers inside the surname and the passport number,
\* and the personal number field made of fillers only
C9_Witness ==
    /\ pc = "decode_mrz_strings"
    /\ WellFormedLine(string1) /\ WellFormedLine(string2)
    /\ AllFillers(Chars(string2, 28, 41))
    /\ decoded.status = "ok"
    /\ decoded.value.personal_number = <<>>
    /\ decoded.value.passport_number = <<>>
    /\ decoded.value.last_name = <<"E", "R", "I", "K", "S", "S", "O", "N">>

(***************************************************************************)
(* Properties: the encoder                                                 *)
(***************************************************************************)
Present(v) == v # None
Text(v) == IF v = None THEN <<>> ELSE v
SpacesToFillers(s) == [i \in 1..Len(s) |-> IF s[i] = " " THEN "<" ELSE s[i]]

\* the length of what the record puts on line 1 before padding
Line1ContentLen(d) ==
    Len(Text(d.document_type)) + 1 + Len(Text(d.country_code)) + Len(Text(d.last_name))
    + 2 + Len(Text(d.first_name))
    + (IF Text(d.middle_names) # <<>> THEN 1 + Len(d.middle_names) ELSE 0)

\* the width characters of line at 0-based offset hold value, cut to width or
\* padded with '<'
InSlot(line, offset, width, value) ==
    \A i \in 1..width :
        line[offset + i] = IF i <= Len(Text(value)) THEN value[i] ELSE "<"

\* C1: for every record with a sex value, whatever the lengths of the other
\* fields (absent, empty, shorter or longer than their widths), both encoded
\* lines are exactly 44 characters: shorter content padded with '<', longer
\* content truncated.
C1_FixedWidth ==
    (pc = "encode_mrz_strings" /\ Present(data.sex)) =>
        /\ encoded.status = "ok"
        /\ Len(encoded.line1) = 44
        /\ Len(encoded.line2) = 44
        /\ \A i \in 1..44 : i > Line1ContentLen(data) => encoded.line1[i] = "<"
        /\ \A i \in 1..Min(44 - 5, Len(Text(data.last_name))) :
               encoded.line1[Len(Text(data.document_type)) + 1
                             + Len(Text(data.country_code)) + i]
                   = SpacesToFillers(data.last_name)[i]
        /\ LET shift == IF data.sex = <<>> THEN 1 ELSE 0
           IN  /\ InSlot(encoded.line2, 0, 9, data.passport_number)
               /\ InSlot(encoded.line2, 10, 3, data.country_code)
               /\ InSlot(encoded.line2, 13, 6, data.birth_date)
               /\ InSlot(encoded.line2, 21 - shift, 6, data.expiration_date)
               /\ InSlot(encoded.line2, 28 - shift, 14, data.personal_number)

\* line 1 content longer than 44 characters, cut
C1_Witness ==
    /\ pc = "encode_mrz_strings"
    /\ Present(data.sex)
    /\ Line1ContentLen(data) > 44
    /\ encoded.status = "ok"
    /\ Len(encoded.line1) = 44
    /\ encoded.line1[44] # "<"

PresentNoFiller(d, keys) == \A k \in keys : Present(d[k]) /\ "<" \notin Range(d[k])

\* the 11 input fields of the decoded record equal those of the record
RoundTripEqual == \A k \in InputKeys : roundtrip.value[k] = data[k]

\* the fixed-width fields have their width, the numbers fit theirs, line 1 fits
FitsLayout(d) ==
    /\ Len(d.document_type) = 1
    /\ Len(d.country_code) = 3
    /\ Len(d.country_code_2) = 3
    /\ Len(d.sex) = 1
    /\ Len(d.birth_date) = 6
    /\ Len(d.expiration_date) = 6
    /\ Len(d.passport_number) <= 9
    /\ Len(d.personal_number) <= 14
    /\ Line1ContentLen(d) <= 44

\* C2 as stated: for any record whose composed fields fit within 44 characters
\* and whose values contain no '<', decoding the encoded lines gives back the
\* record on the 11 input fields.  (Stated here for the records that have every
\* field, each fixed-width field of exactly its width.)
C2_RoundTrip ==
    (pc = "roundtrip" /\ PresentNoFiller(data, InputKeys) /\ FitsLayout(data)) =>
        roundtrip.status = "ok" /\ RoundTripEqual

\* words separated by single blanks: no leading, trailing or doubled blank
SingleSpaced(s) ==
    /\ s # <<>> => s[1] # " " /\ s[Len(s)] # " "
    /\ \A i \in 1..(Len(s) - 1) : ~(s[i] = " " /\ s[i + 1] = " ")

NoEdgeBlank(s) == s # <<>> => s[1] # " " /\ s[Len(s)] # " "

WellFormedRecord(d) ==
    /\ PresentNoFiller(d, InputKeys \ {"middle_names"})
    /\ NoFiller(d.middle_names)
    /\ FitsLayout(d)
    /\ d.country_code_2 = d.country_code
    /\ SingleSpaced(d.last_name)
    /\ " " \notin Range(d.first_name)
    /\ d.middle_names = None \/ (d.middle_names # <<>> /\ SingleSpaced(d.middle_names))
    /\ d.first_name = <<>> => d.middle_names = None
    /\ NoEdgeBlank(d.passport_number)
    /\ NoEdgeBlank(d.personal_number)

\* C2 as amended: the round trip gives back the 11 input fields of every record
\* that has no '<' in any value and fits line 1, and in which document_type and
\* sex are one character, country_code is three characters and country_code_2
\* equals it, the dates are six characters, passport_number and personal_number
\* are at most 9 and 14 characters without leading or trailing blanks, last_name
\* is words separated by single blanks, first_name has no blank (and is empty
\* only if there are no middle names), and middle_names is None or non-empty
\* words separated by single blanks.
C2_RoundTripWellFormed ==
    (pc = "roundtrip" /\ WellFormedRecord(data)) =>
        roundtrip.status = "ok" /\ RoundTripEqual

C2_Witness ==
    /\ pc = "roundtrip"
    /\ data = BaseRecord
    /\ WellFormedRecord(data)
    /\ roundtrip.status = "ok"
    /\ roundtrip.value.middle_names = BaseRecord.middle_names
    /\ roundtrip.value.passport_number = BaseRecord.passport_number

WithEmpty(d) == [k \in DOMAIN d |-> Text(d[k])]

\* C7: encode_mrz_strings fails, returning no lines, for every record without sex,
\* and succeeds for every record with sex whichever other fields are absent,
\* each absent field treated as the empty string.
C7_StrictOnSexOnly ==
    pc = "encode_mrz_strings" =>
        /\ ~Present(data.sex) => encoded = TypeError
        /\ Present(data.sex) =>
               /\ encoded.status = "ok"
               /\ encoded = encode_mrz_strings(WithEmpty(data))

\* sex present, both numbers absent
C7_Witness ==
    /\ pc = "encode_mrz_strings"
    /\ Present(data.sex)
    /\ ~Present(data.passport_number) /\ ~Present(data.personal_number)
    /\ encoded.status = "ok"
    /\ SubSeq(encoded.line2, 1, 9) = <<"<", "<", "<", "<", "<", "<", "<", "<", "<">>

\* C10: for every record with a non-empty sex, the check digits of the encoded
\* line 2 agree with the padded fields at the positions the decoder reads:
\* L[9], L[19], L[27], L[43] are calculate_check_digit of L[0:9], L[13:19],
\* L[21:27], L[28:42], so report_digit_mismatch is false on each pair.
C10_CheckDigitsConsistent ==
    (pc = "encode_mrz_strings" /\ Present(data.sex) /\ data.sex # <<>>) =>
        LET L == encoded.line2
            Agrees(a, b, p) ==
                /\ L[p + 1] \in DigitChars
                /\ int(L[p + 1]) = calculate_check_digit(Chars(L, a, b))
                /\ ~report_digit_mismatch(Chars(L, a, b), L[p + 1])
        IN  /\ encoded.status = "ok"
            /\ Agrees(0, 8, NUMBER_CHECK_DIGIT_POS)
            /\ Agrees(13, 18, BIRTH_DATE_CHECK_DIGIT_POS)
            /\ Agrees(21, 26, EXPIRATION_DATE_CHECK_DIGIT_POS)
            /\ Agrees(28, 41, PERSONAL_NUMBER_CHECK_DIGIT_POS)

\* a passport number and a personal number shorter than their widths, padded
C10_Witness ==
    /\ pc = "encode_mrz_strings"
    /\ data = BaseRecord
    /\ encoded.status = "ok"
    /\ Chars(encoded.line2, 0, 8) = SampleDocNum
    /\ encoded.line2[10] = "0"
    /\ encoded.line2[43] = "<"

====
